---- MODULE Spec2Model ----
(***************************************************************************)
(* A model of ir_Sharp.cpp (IRremoteESP8266): the compact Sharp bit-field  *)
(* protocol (encodeSharp / sendSharpRaw / decodeSharp) and the Sharp A/C   *)
(* state protocol (IRSharpAc, sendSharpAc / decodeSharpAc).                *)
(*                                                                         *)
(* C arrays are 0-based; a TLA+ sequence s models the array a with         *)
(* a[k] = s[k + 1].  Bytes are naturals below 256.                         *)
(***************************************************************************)
EXTENDS Integers, Sequences, FiniteSets, TLC

VARIABLES
  remote,   \* IRSharpAc::remote, the 13 state bytes
  prev,     \* remote as it was before the last IRSharpAc call
  lastOp,   \* the last IRSharpAc call and its argument
  sent,     \* the array the last call handed to _irsend.sendSharpAc (<<>>: none)
  unitTest, \* whether the build defines UNIT_TEST
  phase,    \* where the transmit / capture / decode sequence stands
  enc,      \* the last encodeSharp call: its arguments and its result
  tx,       \* the locals of the running sendSharpRaw call
  frames,   \* the data values handed to sendGeneric so far, in order
  pulses,   \* the mark / space durations emitted so far, in microseconds
  rawbuf,   \* decode_results::rawbuf, in ticks of kRawTick microseconds
  rawlen,   \* decode_results::rawlen
  noise,    \* how the capture differs from what was sent
  results,  \* the output fields of decode_results
  rx        \* the last decode call: its arguments, result and prior results

acVars == <<remote, prev, lastOp, sent>>

linkVars ==
  <<unitTest, phase, enc, tx, frames, pulses, rawbuf, rawlen, noise, results, rx>>

vars == <<remote, prev, lastOp, sent,
          unitTest, phase, enc, tx, frames, pulses, rawbuf, rawlen, noise, results, rx>>

----------------------------------------------------------------------------
(* Bounds of the model.                                                    *)

\* sendSharpRaw is called with repeat in 0..MaxRepeat.
MaxRepeat == 1

\* A fault is put at a capture index up to MaxNoisePos.
MaxNoisePos == 64

\* The lengths a capture is cut to.
TruncLens == {18, 19, 30, 31, 32, 63, 211}

----------------------------------------------------------------------------
(* Bit operations on naturals (C's &, |, ^, <<, >>).                       *)

RECURSIVE BitAnd(_, _)
BitAnd(a, b) ==
  IF a = 0 \/ b = 0 THEN 0
  ELSE (a % 2) * (b % 2) + 2 * BitAnd(a \div 2, b \div 2)

RECURSIVE BitOr(_, _)
BitOr(a, b) ==
  IF a = 0 THEN b
  ELSE IF b = 0 THEN a
  ELSE (IF a % 2 = 1 \/ b % 2 = 1 THEN 1 ELSE 0) + 2 * BitOr(a \div 2, b \div 2)

RECURSIVE BitXor(_, _)
BitXor(a, b) ==
  IF a = 0 THEN b
  ELSE IF b = 0 THEN a
  ELSE ((a + b) % 2) + 2 * BitXor(a \div 2, b \div 2)

RECURSIVE Pow2(_)
Pow2(n) == IF n = 0 THEN 1 ELSE 2 * Pow2(n - 1)

Shl(a, n) == a * Pow2(n)

Shr(a, n) == a \div Pow2(n)

\* ~m on a uint8_t operand, as used in "x &= ~m".
Not8(m) == 255 - m

Max(a, b) == IF a >= b THEN a ELSE b

Min(a, b) == IF a <= b THEN a ELSE b

----------------------------------------------------------------------------
(* Constants of the Sharp A/C state (ir_Sharp.h).                          *)

kSharpAcStateLength == 13

kSharpAcAuto == 0
kSharpAcHeat == 1
kSharpAcCool == 2
kSharpAcDry == 3

kSharpAcMinTemp == 15
kSharpAcMaxTemp == 30

kSharpAcFanAuto == 2
kSharpAcFanMed == 3
kSharpAcFanMin == 4
kSharpAcFanHigh == 5
kSharpAcFanMax == 7

kSharpAcByteTemp == 4
kSharpAcMaskTemp == 15
kSharpAcBytePower == 5
kSharpAcBitPower == 16
kSharpAcByteMode == 6
kSharpAcMaskMode == 3
kSharpAcByteFan == kSharpAcByteMode
kSharpAcMaskFan == 112
kSharpAcByteManual == 10
kSharpAcBitFanManual == 1
kSharpAcBitTempManual == 4

\* "const uint8_t special = 0x20" in setMode.
special == 32

\* The byte a[k] of an array, and the array with a[k] = v.
Byte(a, k) == a[k + 1]

Put(a, k, v) == [a EXCEPT ![k + 1] = v]

----------------------------------------------------------------------------
(* IRSharpAc: checksum.                                                    *)

\* IRutils' xorBytes(start, length): the XOR of start[0 .. length-1].
RECURSIVE xorBytes(_, _)
xorBytes(start, length) ==
  IF length = 0 THEN 0
  ELSE BitXor(xorBytes(start, length - 1), Byte(start, length - 1))

\* calcChecksum without the fold of the high nibble into the low one.
calcChecksumNoFold(state, length) ==
  LET x0 == xorBytes(state, length - 1)
      x1 == BitXor(x0, BitAnd(Byte(state, length - 1), 15))
  IN BitAnd(x1, 15)

\* calcChecksum that leaves the low nibble of the last byte out.
calcChecksumNoLast(state, length) ==
  LET x0 == xorBytes(state, length - 1)
      x2 == BitXor(x0, Shr(x0, 4))
  IN BitAnd(x2, 15)

calcChecksum(state, length) ==
  LET x0 == xorBytes(state, length - 1)
      x1 == BitXor(x0, BitAnd(Byte(state, length - 1), 15))
      x2 == BitXor(x1, Shr(x1, 4))
  IN BitAnd(x2, 15)

validChecksum(state, length) ==
  Shr(Byte(state, length - 1), 4) = calcChecksum(state, length)

\* checksum() with the high nibble left as it was (the "&= 0x0F" forgotten).
checksumNoClear(r) ==
  LET k == kSharpAcStateLength - 1
  IN Put(r, k, BitOr(Byte(r, k), Shl(calcChecksum(r, kSharpAcStateLength), 4)))

checksum(r) ==
  LET k == kSharpAcStateLength - 1
      r1 == Put(r, k, BitAnd(Byte(r, k), 15))
  IN Put(r1, k, BitOr(Byte(r1, k), Shl(calcChecksum(r1, kSharpAcStateLength), 4)))

\* The array stateReset() writes.
stateReset ==
  <<170, 90, 207, 16, 0, 1, 0, 0, 8, 128, 0, 224, 1>>

\* setRaw copies min(length, kSharpAcStateLength) bytes of new_code.
setRaw(r, new_code, length) ==
  [k \in 1..kSharpAcStateLength |->
     IF k <= length /\ k <= Len(new_code) THEN new_code[k] ELSE r[k]]

----------------------------------------------------------------------------
(* IRSharpAc: the field setters and getters.                               *)

on(r) == Put(r, kSharpAcBytePower, BitOr(Byte(r, kSharpAcBytePower), kSharpAcBitPower))

\* off() that clears the whole power byte instead of the power bit.
offClearsByte(r) == Put(r, kSharpAcBytePower, 0)

off(r) ==
  Put(r, kSharpAcBytePower, BitAnd(Byte(r, kSharpAcBytePower), Not8(kSharpAcBitPower)))

setPower(r, b) == IF b THEN on(r) ELSE off(r)

getPower(r) == BitAnd(Byte(r, kSharpAcBytePower), kSharpAcBitPower) # 0

getMode(r) == BitAnd(Byte(r, kSharpAcByteMode), kSharpAcMaskMode)

getTemp(r) == BitAnd(Byte(r, kSharpAcByteTemp), kSharpAcMaskTemp) + kSharpAcMinTemp

\* setTemp without the clamp to [kSharpAcMinTemp, kSharpAcMaxTemp].
setTempNoClamp(r, temp) ==
  IF getMode(r) \in {kSharpAcAuto, kSharpAcDry}
  THEN Put(Put(r, kSharpAcByteTemp, 0), kSharpAcByteManual, 0)
  ELSE LET r1 == Put(r, kSharpAcByteTemp, 192)
           r2 == Put(r1, kSharpAcByteManual,
                     BitOr(Byte(r1, kSharpAcByteManual), kSharpAcBitTempManual))
           degrees == Max(temp, kSharpAcMinTemp)
           r3 == Put(r2, kSharpAcByteTemp,
                     BitAnd(Byte(r2, kSharpAcByteTemp), Not8(kSharpAcMaskTemp)))
       IN Put(r3, kSharpAcByteTemp,
              BitOr(Byte(r3, kSharpAcByteTemp), (degrees - kSharpAcMinTemp) % 256))

setTemp(r, temp) ==
  IF getMode(r) \in {kSharpAcAuto, kSharpAcDry}
  THEN Put(Put(r, kSharpAcByteTemp, 0), kSharpAcByteManual, 0)
  ELSE LET r1 == Put(r, kSharpAcByteTemp, 192)
           r2 == Put(r1, kSharpAcByteManual,
                     BitOr(Byte(r1, kSharpAcByteManual), kSharpAcBitTempManual))
           degrees == Min(Max(temp, kSharpAcMinTemp), kSharpAcMaxTemp)
           r3 == Put(r2, kSharpAcByteTemp,
                     BitAnd(Byte(r2, kSharpAcByteTemp), Not8(kSharpAcMaskTemp)))
       IN Put(r3, kSharpAcByteTemp,
              BitOr(Byte(r3, kSharpAcByteTemp), degrees - kSharpAcMinTemp))

\* The two statements shared by all four case labels of setMode.
storeMode(r, mode) ==
  LET r1 == Put(r, kSharpAcByteMode,
                BitAnd(Byte(r, kSharpAcByteMode), Not8(kSharpAcMaskMode)))
  IN Put(r1, kSharpAcByteMode, BitOr(Byte(r1, kSharpAcByteMode), mode))

\* setMode whose Dry case goes straight to the mode bits (no setTemp(0) call).
RECURSIVE setModeDryKeepsTemp(_, _)
setModeDryKeepsTemp(r, mode) ==
  LET r0 == Put(r, kSharpAcBytePower, BitOr(Byte(r, kSharpAcBytePower), special))
  IN CASE mode = kSharpAcAuto ->
            LET r1 == Put(r0, kSharpAcBytePower,
                          BitAnd(Byte(r0, kSharpAcBytePower), Not8(special)))
            IN storeMode(setTemp(r1, 0), mode)
       [] mode \in {kSharpAcDry, kSharpAcCool, kSharpAcHeat} -> storeMode(r0, mode)
       [] OTHER -> setModeDryKeepsTemp(r0, kSharpAcAuto)

\* setMode whose default case stores the low bits of the value it was given.
setModeStoresAny(r, mode) ==
  LET r0 == Put(r, kSharpAcBytePower, BitOr(Byte(r, kSharpAcBytePower), special))
  IN CASE mode = kSharpAcAuto ->
            LET r1 == Put(r0, kSharpAcBytePower,
                          BitAnd(Byte(r0, kSharpAcBytePower), Not8(special)))
            IN storeMode(setTemp(r1, 0), mode)
       [] mode = kSharpAcDry -> storeMode(setTemp(r0, 0), mode)
       [] mode \in {kSharpAcCool, kSharpAcHeat} -> storeMode(r0, mode)
       [] OTHER -> storeMode(r0, BitAnd(mode, kSharpAcMaskMode))

\* setMode whose Auto case leaves the 0x20 marker set.
RECURSIVE setModeAutoKeepsMarker(_, _)
setModeAutoKeepsMarker(r, mode) ==
  LET r0 == Put(r, kSharpAcBytePower, BitOr(Byte(r, kSharpAcBytePower), special))
  IN CASE mode = kSharpAcAuto -> storeMode(setTemp(r0, 0), mode)
       [] mode = kSharpAcDry -> storeMode(setTemp(r0, 0), mode)
       [] mode \in {kSharpAcCool, kSharpAcHeat} -> storeMode(r0, mode)
       [] OTHER -> setModeAutoKeepsMarker(r0, kSharpAcAuto)

RECURSIVE setMode(_, _)
setMode(r, mode) ==
  LET r0 == Put(r, kSharpAcBytePower, BitOr(Byte(r, kSharpAcBytePower), special))
  IN CASE mode = kSharpAcAuto ->
            LET r1 == Put(r0, kSharpAcBytePower,
                          BitAnd(Byte(r0, kSharpAcBytePower), Not8(special)))
            IN storeMode(setTemp(r1, 0), mode)
       [] mode = kSharpAcDry -> storeMode(setTemp(r0, 0), mode)
       [] mode \in {kSharpAcCool, kSharpAcHeat} -> storeMode(r0, mode)
       [] OTHER -> setMode(r0, kSharpAcAuto)

getFan(r) == Shr(BitAnd(Byte(r, kSharpAcByteFan), kSharpAcMaskFan), 4)

\* setFan whose default case stores the speed it was given.
setFanNoFallback(r, speed) ==
  LET r0 == Put(r, kSharpAcByteManual,
                BitOr(Byte(r, kSharpAcByteManual), kSharpAcBitFanManual))
      store(x) ==
        LET x1 == Put(x, kSharpAcByteFan,
                      BitAnd(Byte(x, kSharpAcByteFan), Not8(kSharpAcMaskFan)))
        IN Put(x1, kSharpAcByteFan,
               BitAnd(BitOr(Byte(x1, kSharpAcByteFan), Shl(speed, 4)), 255))
  IN CASE speed = kSharpAcFanAuto ->
            store(Put(r0, kSharpAcByteManual,
                      BitAnd(Byte(r0, kSharpAcByteManual), Not8(kSharpAcBitFanManual))))
       [] OTHER -> store(r0)

RECURSIVE setFan(_, _)
setFan(r, speed) ==
  LET r0 == Put(r, kSharpAcByteManual,
                BitOr(Byte(r, kSharpAcByteManual), kSharpAcBitFanManual))
      store(x) ==
        LET x1 == Put(x, kSharpAcByteFan,
                      BitAnd(Byte(x, kSharpAcByteFan), Not8(kSharpAcMaskFan)))
        IN Put(x1, kSharpAcByteFan,
               BitAnd(BitOr(Byte(x1, kSharpAcByteFan), Shl(speed, 4)), 255))
  IN CASE speed = kSharpAcFanAuto ->
            store(Put(r0, kSharpAcByteManual,
                      BitAnd(Byte(r0, kSharpAcByteManual), Not8(kSharpAcBitFanManual))))
       [] speed \in {kSharpAcFanMin, kSharpAcFanMed, kSharpAcFanHigh, kSharpAcFanMax} ->
            store(r0)
       [] OTHER -> setFan(r0, kSharpAcFanAuto)

----------------------------------------------------------------------------
(* Constants of the compact Sharp protocol and of the capture layer.       *)

kSharpTick == 26
kSharpBitMarkTicks == 10
kSharpBitMark == kSharpBitMarkTicks * kSharpTick
kSharpOneSpaceTicks == 70
kSharpOneSpace == kSharpOneSpaceTicks * kSharpTick
kSharpZeroSpaceTicks == 30
kSharpZeroSpace == kSharpZeroSpaceTicks * kSharpTick
kSharpGapTicks == 1677
kSharpGap == kSharpGapTicks * kSharpTick

\* Address(5) + Command(8) + Expansion(1) + Check(1)
kSharpAddressBits == 5
kSharpCommandBits == 8
kSharpBits == 15

kSharpToggleMask == Pow2(kSharpBits - kSharpAddressBits) - 1
kSharpAddressMask == Pow2(kSharpAddressBits) - 1
kSharpCommandMask == Pow2(kSharpCommandBits) - 1

\* Sharp A/C timings (ir_Sharp.h) and message size.
kSharpAcHdrMark == 3800
kSharpAcHdrSpace == 1900
kSharpAcBitMark == 470
kSharpAcZeroSpace == 500
kSharpAcOneSpace == 1400
kSharpAcGap == 100000
kSharpAcBits == kSharpAcStateLength * 8

\* IRrecv.h.
kRawTick == 2
kStartOffset == 1
kHeader == 2
kFooter == 2
kTolerance == 25
kMarkExcess == 50
kTimeoutMs == 15

\* decode_type_t values.
UNKNOWN == "UNKNOWN"
SHARP == "SHARP"
SHARP_AC == "SHARP_AC"

----------------------------------------------------------------------------
(* IRutils and IRsend helpers used by the protocol code.                   *)

\* reverseBits(input, nbits): the low nbits bits reversed, the bits above
\* them kept on top of the result.  (The values of this model stay far below
\* the 64 bits of the C type, so no reduction modulo 2^64 is written.)
RECURSIVE revLow(_, _, _)
revLow(input, n, output) ==
  IF n = 0 THEN output ELSE revLow(input \div 2, n - 1, 2 * output + (input % 2))

reverseBits(input, nbits) ==
  IF nbits <= 1 THEN input
  ELSE LET n == Min(nbits, 64)
       IN Shl(Shr(input, n), n) + revLow(input, n, 0)

\* sendData: one (mark, space) pair per bit, in the order asked for.
RECURSIVE sendData(_, _, _, _, _, _, _)
sendData(onemark, onespace, zeromark, zerospace, data, nbits, MSBfirst) ==
  IF nbits = 0 THEN <<>>
  ELSE LET bit == IF MSBfirst THEN Shr(data, nbits - 1) % 2 ELSE data % 2
           rest == IF MSBfirst THEN data ELSE data \div 2
       IN (IF bit = 1 THEN <<onemark, onespace>> ELSE <<zeromark, zerospace>>)
          \o sendData(onemark, onespace, zeromark, zerospace, rest, nbits - 1, MSBfirst)

Optional(usecs) == IF usecs = 0 THEN <<>> ELSE <<usecs>>

\* sendGeneric for a value of nbits bits, sent once (repeat = 0).
sendGeneric(headermark, headerspace, onemark, onespace, zeromark, zerospace, footermark, gap, data, nbits, MSBfirst) ==
  Optional(headermark) \o Optional(headerspace)
  \o sendData(onemark, onespace, zeromark, zerospace, data, nbits, MSBfirst)
  \o Optional(footermark) \o <<gap>>

\* The data loop of sendGeneric for a byte array: 8 bits per byte.
RECURSIVE sendBytes(_, _, _, _, _, _, _)
sendBytes(onemark, onespace, zeromark, zerospace, data, nbytes, MSBfirst) ==
  IF nbytes = 0 THEN <<>>
  ELSE sendBytes(onemark, onespace, zeromark, zerospace, data, nbytes - 1, MSBfirst)
       \o sendData(onemark, onespace, zeromark, zerospace,
                   Byte(data, nbytes - 1), 8, MSBfirst)

\* sendGeneric for a byte array, sent repeat + 1 times.
RECURSIVE sendGenericBytes(_, _, _, _, _, _, _, _, _, _, _, _)
sendGenericBytes(headermark, headerspace, onemark, onespace, zeromark, zerospace, footermark, gap, data, nbytes, MSBfirst, repeat) ==
  LET once == Optional(headermark) \o Optional(headerspace)
              \o sendBytes(onemark, onespace, zeromark, zerospace, data, nbytes, MSBfirst)
              \o Optional(footermark) \o <<gap>>
  IN IF repeat = 0 THEN once
     ELSE once \o sendGenericBytes(headermark, headerspace, onemark, onespace,
                                   zeromark, zerospace, footermark, gap, data,
                                   nbytes, MSBfirst, repeat - 1)

----------------------------------------------------------------------------
(* The compact protocol: encodeSharp and sendSharpRaw.                     *)

\* encodeSharp that packs address and command as given in both bit orders.
encodeSharpNoReverse(address, command, expansion, check, MSBfirst) ==
  LET a == BitAnd(address, Pow2(kSharpAddressBits) - 1)
      c == BitAnd(command, Pow2(kSharpCommandBits) - 1)
      e == BitAnd(expansion, 1)
      k == BitAnd(check, 1)
  IN BitOr(BitOr(Shl(a, kSharpCommandBits + 2), Shl(c, 2)), BitOr(Shl(e, 1), k))

\* encodeSharp without the four masking statements.
encodeSharpNoMask(address, command, expansion, check, MSBfirst) ==
  LET a == IF ~MSBfirst THEN reverseBits(address, kSharpAddressBits) % Pow2(16) ELSE address
      c == IF ~MSBfirst THEN reverseBits(command, kSharpCommandBits) % Pow2(16) ELSE command
  IN BitOr(BitOr(Shl(a, kSharpCommandBits + 2), Shl(c, 2)), BitOr(Shl(expansion, 1), check))

encodeSharp(address, command, expansion, check, MSBfirst) ==
  LET a0 == BitAnd(address, Pow2(kSharpAddressBits) - 1)
      c0 == BitAnd(command, Pow2(kSharpCommandBits) - 1)
      e == BitAnd(expansion, 1)
      k == BitAnd(check, 1)
      a == IF ~MSBfirst THEN reverseBits(a0, kSharpAddressBits) % Pow2(16) ELSE a0
      c == IF ~MSBfirst THEN reverseBits(c0, kSharpCommandBits) % Pow2(16) ELSE c0
  IN BitOr(BitOr(Shl(a, kSharpCommandBits + 2), Shl(c, 2)), BitOr(Shl(e, 1), k))

\* The sendGeneric call of sendSharpRaw: the pulses of one half-frame.
sharpHalfFrame(data, nbits) ==
  sendGeneric(0, 0, kSharpBitMark, kSharpOneSpace, kSharpBitMark, kSharpZeroSpace,
              kSharpBitMark, kSharpGap, data, nbits, TRUE)

\* sendSharpRaw's "data ^= kSharpToggleMask" left out.
toggleNone(data) == data

\* "data ^= kSharpToggleMask".
toggle(data) == BitXor(data, kSharpToggleMask)

\* sendSharpAc: nothing is sent for fewer than kSharpAcStateLength bytes.
sendSharpAc(data, nbytes, repeat) ==
  IF nbytes < kSharpAcStateLength THEN <<>>
  ELSE sendGenericBytes(kSharpAcHdrMark, kSharpAcHdrSpace, kSharpAcBitMark,
                        kSharpAcOneSpace, kSharpAcBitMark, kSharpAcZeroSpace,
                        kSharpAcBitMark, kSharpAcGap, data, nbytes, FALSE, repeat)

----------------------------------------------------------------------------
(* IRrecv's timing matchers.  measured is in ticks, desired in usecs.      *)

ticksLow(usecs, tolerance, delta) ==
  Max(((usecs * (100 - tolerance)) \div 100) - delta, 0)

ticksHigh(usecs, tolerance, delta) ==
  ((usecs * (100 + tolerance)) \div 100) + 1 + delta

match(measured, desired, tolerance) ==
  /\ measured * kRawTick >= ticksLow(desired, tolerance, 0)
  /\ measured * kRawTick <= ticksHigh(desired, tolerance, 0)

matchAtLeast(measured, desired) ==
  \/ measured * kRawTick = 0
  \/ measured * kRawTick >= ticksLow(Min(desired, kTimeoutMs * 1000), kTolerance, 0)

matchMark(measured, desired, tolerance, excess) ==
  match(measured, desired + excess, tolerance)

matchSpace(measured, desired, tolerance, excess) ==
  match(measured, desired - excess, tolerance)

\* rawbuf[k]; past the end of the buffer the model reads 0.
Raw(buf, k) == IF k + 1 <= Len(buf) THEN buf[k + 1] ELSE 0

\* matchData: up to nbits (mark, space) pairs from rawbuf[offset] on.
RECURSIVE matchBits(_, _, _, _, _, _, _, _, _, _, _)
matchBits(buf, offset, nbits, onemark, onespace, zeromark, zerospace, tolerance, excess, used, data) ==
  IF used >= nbits * 2 THEN [success |-> TRUE, data |-> data, used |-> used]
  ELSE IF /\ matchMark(Raw(buf, offset + used), onemark, tolerance, excess)
          /\ matchSpace(Raw(buf, offset + used + 1), onespace, tolerance, excess)
       THEN matchBits(buf, offset, nbits, onemark, onespace, zeromark, zerospace,
                      tolerance, excess, used + 2, 2 * data + 1)
  ELSE IF /\ matchMark(Raw(buf, offset + used), zeromark, tolerance, excess)
          /\ matchSpace(Raw(buf, offset + used + 1), zerospace, tolerance, excess)
       THEN matchBits(buf, offset, nbits, onemark, onespace, zeromark, zerospace,
                      tolerance, excess, used + 2, 2 * data)
  ELSE [success |-> FALSE, data |-> data, used |-> used]

matchData(buf, offset, nbits, onemark, onespace, zeromark, zerospace, tolerance, excess, MSBfirst) ==
  LET m == matchBits(buf, offset, nbits, onemark, onespace, zeromark, zerospace,
                     tolerance, excess, 0, 0)
  IN IF MSBfirst THEN m
     ELSE [m EXCEPT !.data = reverseBits(m.data, IF m.success THEN nbits ELSE m.used \div 2)]

----------------------------------------------------------------------------
(* decodeSharp.                                                            *)

\* The output fields of a decode_results nothing has been decoded into.
NoResults ==
  [decode_type |-> UNKNOWN, bits |-> 0, value |-> 0, address |-> 0, command |-> 0,
   state |-> [k \in 1..kSharpAcStateLength |-> 0]]

\* What a decoder returns: its boolean and the output fields as it leaves them.
Returns(ok, res) == [ok |-> ok, results |-> res]

\* The data loop of decodeSharp: nbits (mark, space) pairs from offset on.
RECURSIVE sharpData(_, _, _, _, _)
sharpData(buf, tick, offset, n, data) ==
  IF n = 0 THEN [ok |-> TRUE, data |-> data, offset |-> offset]
  ELSE IF ~matchMark(Raw(buf, offset), kSharpBitMarkTicks * tick, 35, kMarkExcess)
       THEN [ok |-> FALSE, data |-> data, offset |-> offset]
  ELSE IF matchSpace(Raw(buf, offset + 1), kSharpOneSpaceTicks * tick, kTolerance, kMarkExcess)
       THEN sharpData(buf, tick, offset + 2, n - 1, 2 * data + 1)
  ELSE IF matchSpace(Raw(buf, offset + 1), kSharpZeroSpaceTicks * tick, kTolerance, kMarkExcess)
       THEN sharpData(buf, tick, offset + 2, n - 1, 2 * data)
  ELSE [ok |-> FALSE, data |-> data, offset |-> offset + 1]

\* Data and footer of one half-frame; offset ends after the footer mark.
sharpFrame(buf, len, tick, offset, nbits) ==
  LET d == sharpData(buf, tick, offset, nbits, 0)
  IN IF ~d.ok THEN d
     ELSE IF ~match(Raw(buf, d.offset), kSharpBitMarkTicks * tick, kTolerance)
          THEN [d EXCEPT !.ok = FALSE]
     ELSE IF /\ d.offset + 1 < len
             /\ ~matchAtLeast(Raw(buf, d.offset + 1), kSharpGapTicks * tick)
          THEN [ok |-> FALSE, data |-> d.data, offset |-> d.offset + 1]
     ELSE [ok |-> TRUE, data |-> d.data, offset |-> d.offset + 1]

\* The "#ifdef UNIT_TEST" part of the strict checks: the second, inverted copy.
secondFrameOk(buf, len, tick, offset, nbits, data) ==
  /\ matchSpace(Raw(buf, offset), kSharpGapTicks * tick, kTolerance, kMarkExcess)
  /\ LET s == sharpFrame(buf, len, tick, offset + 1, nbits)
     IN s.ok /\ data = BitXor(s.data, kSharpToggleMask)

\* The "Success" block of decodeSharp.
sharpSuccess(res, data, nbits) ==
  [res EXCEPT !.decode_type = SHARP,
              !.bits = nbits,
              !.value = data,
              !.address = BitAnd(reverseBits(data, nbits), kSharpAddressMask),
              !.command = reverseBits(BitAnd(Shr(data, 2), kSharpCommandMask),
                                      kSharpCommandBits)]

\* decodeSharp with the second copy never compared (as without UNIT_TEST).
decodeSharpNoSecond(res, buf, len, nbits, strict, expansion, ut) ==
  IF len < 2 * nbits + kFooter - 1 THEN Returns(FALSE, res)
  ELSE IF strict /\ nbits # kSharpBits THEN Returns(FALSE, res)
  ELSE IF strict /\ ut /\ len < 2 * (2 * nbits + kFooter) THEN Returns(FALSE, res)
  ELSE IF ~matchMark(Raw(buf, kStartOffset), kSharpBitMark, 35, kMarkExcess)
       THEN Returns(FALSE, res)
  ELSE LET tick == (Raw(buf, kStartOffset) * kRawTick) \div kSharpBitMarkTicks
           f == sharpFrame(buf, len, tick, kStartOffset, nbits)
       IN IF ~f.ok THEN Returns(FALSE, res)
          ELSE IF strict /\ (Shr(BitAnd(f.data, 2), 1) # (IF expansion THEN 1 ELSE 0))
               THEN Returns(FALSE, res)
          ELSE IF strict /\ BitAnd(f.data, 1) # 0 THEN Returns(FALSE, res)
          ELSE Returns(TRUE, sharpSuccess(res, f.data, nbits))

\* decodeSharp without the strict test of the check bit.
decodeSharpNoCheckBit(res, buf, len, nbits, strict, expansion, ut) ==
  IF len < 2 * nbits + kFooter - 1 THEN Returns(FALSE, res)
  ELSE IF strict /\ nbits # kSharpBits THEN Returns(FALSE, res)
  ELSE IF strict /\ ut /\ len < 2 * (2 * nbits + kFooter) THEN Returns(FALSE, res)
  ELSE IF ~matchMark(Raw(buf, kStartOffset), kSharpBitMark, 35, kMarkExcess)
       THEN Returns(FALSE, res)
  ELSE LET tick == (Raw(buf, kStartOffset) * kRawTick) \div kSharpBitMarkTicks
           f == sharpFrame(buf, len, tick, kStartOffset, nbits)
       IN IF ~f.ok THEN Returns(FALSE, res)
          ELSE IF strict /\ (Shr(BitAnd(f.data, 2), 1) # (IF expansion THEN 1 ELSE 0))
               THEN Returns(FALSE, res)
          ELSE IF strict /\ ut /\ ~secondFrameOk(buf, len, tick, f.offset, nbits, f.data)
               THEN Returns(FALSE, res)
          ELSE Returns(TRUE, sharpSuccess(res, f.data, nbits))

decodeSharp(res, buf, len, nbits, strict, expansion, ut) ==
  IF len < 2 * nbits + kFooter - 1 THEN Returns(FALSE, res)
  ELSE IF strict /\ nbits # kSharpBits THEN Returns(FALSE, res)
  ELSE IF strict /\ ut /\ len < 2 * (2 * nbits + kFooter) THEN Returns(FALSE, res)
  ELSE IF ~matchMark(Raw(buf, kStartOffset), kSharpBitMark, 35, kMarkExcess)
       THEN Returns(FALSE, res)
  ELSE LET tick == (Raw(buf, kStartOffset) * kRawTick) \div kSharpBitMarkTicks
           f == sharpFrame(buf, len, tick, kStartOffset, nbits)
       IN IF ~f.ok THEN Returns(FALSE, res)
          ELSE IF strict /\ (Shr(BitAnd(f.data, 2), 1) # (IF expansion THEN 1 ELSE 0))
               THEN Returns(FALSE, res)
          ELSE IF strict /\ BitAnd(f.data, 1) # 0 THEN Returns(FALSE, res)
          ELSE IF strict /\ ut /\ ~secondFrameOk(buf, len, tick, f.offset, nbits, f.data)
               THEN Returns(FALSE, res)
          ELSE Returns(TRUE, sharpSuccess(res, f.data, nbits))

----------------------------------------------------------------------------
(* decodeSharpAc.                                                          *)

\* "results->state[i] = ..."; the model keeps the first kSharpAcStateLength
\* bytes of the array.
storeState(state, i, v) == IF i < Len(state) THEN Put(state, i, v) ELSE state

\* The data loop: a byte at a time while 16 entries are left and i < nbits.
RECURSIVE acData(_, _, _, _, _, _, _)
acData(buf, len, nbits, offset, i, dataBitsSoFar, state) ==
  IF ~(offset <= len - 16 /\ i < nbits)
  THEN [offset |-> offset, bits |-> dataBitsSoFar, state |-> state, stored |-> i]
  ELSE LET m == matchData(buf, offset, 8, kSharpAcBitMark, kSharpAcOneSpace,
                          kSharpAcBitMark, kSharpAcZeroSpace, kTolerance,
                          kMarkExcess, FALSE)
       IN IF ~m.success
          THEN [offset |-> offset, bits |-> dataBitsSoFar, state |-> state, stored |-> i]
          ELSE acData(buf, len, nbits, offset + m.used, i + 1,
                      (dataBitsSoFar + 8) % Pow2(16), storeState(state, i, m.data % 256))

\* decodeSharpAc without the strict checksum test.
decodeSharpAcNoChecksum(res, buf, len, nbits, strict) ==
  IF len < 2 * nbits + kHeader + kFooter - 1 THEN Returns(FALSE, res)
  ELSE IF strict /\ nbits # kSharpAcBits THEN Returns(FALSE, res)
  ELSE IF ~matchMark(Raw(buf, kStartOffset), kSharpAcHdrMark, kTolerance, kMarkExcess)
       THEN Returns(FALSE, res)
  ELSE IF ~matchSpace(Raw(buf, kStartOffset + 1), kSharpAcHdrSpace, kTolerance, kMarkExcess)
       THEN Returns(FALSE, res)
  ELSE LET d == acData(buf, len, nbits, kStartOffset + 2, 0, 0, res.state)
           stored == [res EXCEPT !.state = d.state]
       IN IF ~matchMark(Raw(buf, d.offset), kSharpAcBitMark, kTolerance, kMarkExcess)
          THEN Returns(FALSE, stored)
          ELSE IF /\ d.offset + 1 < len
                  /\ ~matchAtLeast(Raw(buf, d.offset + 1), kSharpAcGap)
               THEN Returns(FALSE, stored)
          ELSE IF strict /\ d.bits # kSharpAcBits THEN Returns(FALSE, stored)
          ELSE Returns(TRUE, [stored EXCEPT !.decode_type = SHARP_AC, !.bits = d.bits])

\* The number of "results->state[i] = ..." assignments a decodeSharpAc call makes.
bytesStored(buf, len, nbits, strict) ==
  IF len < 2 * nbits + kHeader + kFooter - 1 THEN 0
  ELSE IF strict /\ nbits # kSharpAcBits THEN 0
  ELSE IF ~matchMark(Raw(buf, kStartOffset), kSharpAcHdrMark, kTolerance, kMarkExcess)
       THEN 0
  ELSE IF ~matchSpace(Raw(buf, kStartOffset + 1), kSharpAcHdrSpace, kTolerance, kMarkExcess)
       THEN 0
  ELSE acData(buf, len, nbits, kStartOffset + 2, 0, 0, NoResults.state).stored

decodeSharpAc(res, buf, len, nbits, strict) ==
  IF len < 2 * nbits + kHeader + kFooter - 1 THEN Returns(FALSE, res)
  ELSE IF strict /\ nbits # kSharpAcBits THEN Returns(FALSE, res)
  ELSE IF ~matchMark(Raw(buf, kStartOffset), kSharpAcHdrMark, kTolerance, kMarkExcess)
       THEN Returns(FALSE, res)
  ELSE IF ~matchSpace(Raw(buf, kStartOffset + 1), kSharpAcHdrSpace, kTolerance, kMarkExcess)
       THEN Returns(FALSE, res)
  ELSE LET d == acData(buf, len, nbits, kStartOffset + 2, 0, 0, res.state)
           stored == [res EXCEPT !.state = d.state]
       IN IF ~matchMark(Raw(buf, d.offset), kSharpAcBitMark, kTolerance, kMarkExcess)
          THEN Returns(FALSE, stored)
          ELSE IF /\ d.offset + 1 < len
                  /\ ~matchAtLeast(Raw(buf, d.offset + 1), kSharpAcGap)
               THEN Returns(FALSE, stored)
          ELSE IF strict /\ d.bits # kSharpAcBits THEN Returns(FALSE, stored)
          ELSE IF strict /\ ~validChecksum(d.state, kSharpAcStateLength)
               THEN Returns(FALSE, stored)
          ELSE Returns(TRUE, [stored EXCEPT !.decode_type = SHARP_AC, !.bits = d.bits])

----------------------------------------------------------------------------
(* The rawbuf indices the decoders read.  Both read upwards from            *)
(* kStartOffset, so the highest index read is the last one; 0 stands for    *)
(* a call that returns before its first read.                               *)

\* The last index sharpFrame has read, given what it returned: the entry it
\* failed on, or the footer mark and, only when "offset < rawlen", the gap.
frameLastRead(f, len) ==
  IF ~f.ok THEN f.offset
  ELSE IF f.offset < len THEN f.offset ELSE f.offset - 1

\* The highest index a decodeSharp call reads.
sharpLastRead(buf, len, nbits, strict, expansion, ut) ==
  IF len < 2 * nbits + kFooter - 1 THEN 0
  ELSE IF strict /\ nbits # kSharpBits THEN 0
  ELSE IF strict /\ ut /\ len < 2 * (2 * nbits + kFooter) THEN 0
  ELSE IF ~matchMark(Raw(buf, kStartOffset), kSharpBitMark, 35, kMarkExcess)
       THEN kStartOffset
  ELSE LET tick == (Raw(buf, kStartOffset) * kRawTick) \div kSharpBitMarkTicks
           f == sharpFrame(buf, len, tick, kStartOffset, nbits)
       IN IF ~f.ok THEN frameLastRead(f, len)
          ELSE IF strict /\ (Shr(BitAnd(f.data, 2), 1) # (IF expansion THEN 1 ELSE 0))
               THEN frameLastRead(f, len)
          ELSE IF strict /\ BitAnd(f.data, 1) # 0 THEN frameLastRead(f, len)
          ELSE IF ~(strict /\ ut) THEN frameLastRead(f, len)
          ELSE IF ~matchSpace(Raw(buf, f.offset), kSharpGapTicks * tick, kTolerance, kMarkExcess)
               THEN f.offset
          ELSE frameLastRead(sharpFrame(buf, len, tick, f.offset + 1, nbits), len)

\* The highest index the data loop of decodeSharpAc reads, given where it
\* stopped: a byte it gave up on was read up to its first unmatched entry.
acDataLastRead(buf, len, nbits, d) ==
  IF ~(d.offset <= len - 16 /\ d.stored < nbits) THEN d.offset - 1
  ELSE LET m == matchData(buf, d.offset, 8, kSharpAcBitMark, kSharpAcOneSpace,
                          kSharpAcBitMark, kSharpAcZeroSpace, kTolerance,
                          kMarkExcess, FALSE)
           at == d.offset + m.used
       IN IF matchMark(Raw(buf, at), kSharpAcBitMark, kTolerance, kMarkExcess)
          THEN at + 1 ELSE at

\* The highest index a decodeSharpAc call reads.
acLastRead(buf, len, nbits, strict) ==
  IF len < 2 * nbits + kHeader + kFooter - 1 THEN 0
  ELSE IF strict /\ nbits # kSharpAcBits THEN 0
  ELSE IF ~matchMark(Raw(buf, kStartOffset), kSharpAcHdrMark, kTolerance, kMarkExcess)
       THEN kStartOffset
  ELSE IF ~matchSpace(Raw(buf, kStartOffset + 1), kSharpAcHdrSpace, kTolerance, kMarkExcess)
       THEN kStartOffset + 1
  ELSE LET d == acData(buf, len, nbits, kStartOffset + 2, 0, 0, NoResults.state)
           data == acDataLastRead(buf, len, nbits, d)
       IN IF ~matchMark(Raw(buf, d.offset), kSharpAcBitMark, kTolerance, kMarkExcess)
          THEN Max(data, d.offset)
          ELSE IF d.offset + 1 < len THEN Max(data, d.offset + 1)
          ELSE Max(data, d.offset)

----------------------------------------------------------------------------
(* Transmit, capture and decode as a state machine.                        *)
(*                                                                         *)
(* phase: "idle" -> "encoded" -> "sending" -> "sent" -> "captured" ->      *)
(* "decoded" for the compact protocol; sendSharpAc goes from "idle"        *)
(* straight to "sent".                                                     *)

NoArg == 0

Op(name, arg) == [op |-> name, arg |-> arg]

\* The IRSharpAc object as its constructor leaves it.
AcReset ==
  /\ remote = stateReset
  /\ prev = stateReset
  /\ lastOp = Op("stateReset", NoArg)
  /\ sent = <<>>

NoEnc ==
  [address |-> 0, command |-> 0, expansion |-> 0, check |-> 0, MSBfirst |-> FALSE,
   frame |-> 0]

NoTx ==
  [proto |-> UNKNOWN, data0 |-> 0, data |-> 0, state |-> <<>>, nbits |-> 0,
   repeat |-> 0, i |-> 0, n |-> 0]

NoRx ==
  [proto |-> UNKNOWN, nbits |-> 0, strict |-> FALSE, expansion |-> FALSE,
   ok |-> FALSE, before |-> NoResults]

NoNoise == [kind |-> "none", pos |-> 0]

\* Nothing encoded, sent or captured yet.
LinkIdle ==
  /\ phase = "idle"
  /\ enc = NoEnc
  /\ tx = NoTx
  /\ frames = <<>>
  /\ pulses = <<>>
  /\ rawbuf = <<>>
  /\ rawlen = 0
  /\ noise = NoNoise
  /\ results = NoResults
  /\ rx = NoRx

InitLink == AcReset /\ LinkIdle /\ unitTest \in BOOLEAN

\* encodeSharp(address, command, expansion, check, MSBfirst).
Encode(A, C, E, K, M) ==
  /\ phase = "idle"
  /\ \E a \in A, c \in C, e \in E, k \in K, m \in M :
       enc' = [address |-> a, command |-> c, expansion |-> e, check |-> k,
               MSBfirst |-> m, frame |-> encodeSharp(a, c, e, k, m)]
  /\ phase' = "encoded"
  /\ UNCHANGED <<acVars, unitTest, tx, frames, pulses, rawbuf, rawlen, noise, results, rx>>

\* sendSharpRaw(enc.frame, kSharpBits, repeat) is entered: i = 0, n = 0.
SendSharpRaw(R) ==
  /\ phase = "encoded"
  /\ \E r \in R :
       tx' = [proto |-> SHARP, data0 |-> enc.frame, data |-> enc.frame, state |-> <<>>,
              nbits |-> kSharpBits, repeat |-> r, i |-> 0, n |-> 0]
  /\ phase' = "sending"
  /\ UNCHANGED <<acVars, unitTest, enc, frames, pulses, rawbuf, rawlen, noise, results, rx>>

\* sendSharpRaw(enc.frame, nbits, repeat) is entered with a bit count of the
\* caller's choice.
SendSharpRawBits(N, R) ==
  /\ phase = "encoded"
  /\ \E b \in N, r \in R :
       tx' = [proto |-> SHARP, data0 |-> enc.frame, data |-> enc.frame, state |-> <<>>,
              nbits |-> b, repeat |-> r, i |-> 0, n |-> 0]
  /\ phase' = "sending"
  /\ UNCHANGED <<acVars, unitTest, enc, frames, pulses, rawbuf, rawlen, noise, results, rx>>

\* One pass of the inner loop: sendGeneric(data), then the inversion.
SendHalf ==
  /\ phase = "sending"
  /\ tx.i <= tx.repeat
  /\ tx.n < 2
  /\ frames' = Append(frames, tx.data)
  /\ pulses' = pulses \o sharpHalfFrame(tx.data, tx.nbits)
  /\ tx' = [tx EXCEPT !.data = toggle(tx.data), !.n = tx.n + 1]
  /\ UNCHANGED <<acVars, unitTest, phase, enc, rawbuf, rawlen, noise, results, rx>>

\* The inner loop ends; i++ on the uint16_t counter.
NextRepeat ==
  /\ phase = "sending"
  /\ tx.n = 2
  /\ tx' = [tx EXCEPT !.i = (tx.i + 1) % Pow2(16), !.n = 0]
  /\ UNCHANGED <<acVars, unitTest, phase, enc, frames, pulses, rawbuf, rawlen, noise,
                 results, rx>>

\* The outer loop ends: sendSharpRaw returns.
SendReturn ==
  /\ phase = "sending"
  /\ tx.n = 0
  /\ ~(tx.i <= tx.repeat)
  /\ phase' = "sent"
  /\ UNCHANGED <<acVars, unitTest, enc, tx, frames, pulses, rawbuf, rawlen, noise,
                 results, rx>>

\* sendSharpAc(data, nbytes, repeat), one call.
SendSharpAc(D, R) ==
  /\ phase = "idle"
  /\ \E d \in D, r \in R :
       /\ tx' = [proto |-> SHARP_AC, data0 |-> 0, data |-> 0, state |-> d,
                 nbits |-> 8 * Len(d), repeat |-> r, i |-> 0, n |-> 0]
       /\ pulses' = sendSharpAc(d, Len(d), r)
  /\ phase' = "sent"
  /\ UNCHANGED <<acVars, unitTest, enc, frames, rawbuf, rawlen, noise, results, rx>>

\* microseconds to capture ticks.
toTicks(p) == [k \in 1..Len(p) |-> p[k] \div kRawTick]

\* The receiver has captured what was sent: rawbuf[0] is the gap before the
\* message, the pulses follow from kStartOffset on.
Capture ==
  /\ phase = "sent"
  /\ rawbuf' = <<0>> \o toTicks(pulses)
  /\ rawlen' = Len(pulses) + 1
  /\ phase' = "captured"
  /\ UNCHANGED <<acVars, unitTest, enc, tx, frames, pulses, noise, results, rx>>

OneTicks == {kSharpOneSpace \div kRawTick, kSharpAcOneSpace \div kRawTick}

ZeroTicks == {kSharpZeroSpace \div kRawTick, kSharpAcZeroSpace \div kRawTick}

\* The other symbol's space, for a space of a data bit.
Flipped(t) ==
  CASE t = kSharpOneSpace \div kRawTick -> kSharpZeroSpace \div kRawTick
    [] t = kSharpZeroSpace \div kRawTick -> kSharpOneSpace \div kRawTick
    [] t = kSharpAcOneSpace \div kRawTick -> kSharpAcZeroSpace \div kRawTick
    [] t = kSharpAcZeroSpace \div kRawTick -> kSharpAcOneSpace \div kRawTick
    [] OTHER -> t

\* The capture differs from what was sent in one data bit.
Flip ==
  /\ phase = "captured"
  /\ noise.kind = "none"
  /\ \E p \in 1..Min(rawlen - 1, MaxNoisePos) :
       /\ Raw(rawbuf, p) \in OneTicks \cup ZeroTicks
       /\ rawbuf' = Put(rawbuf, p, Flipped(Raw(rawbuf, p)))
       /\ noise' = [kind |-> "flip", pos |-> p]
  /\ UNCHANGED <<acVars, unitTest, phase, enc, tx, frames, pulses, rawlen, results, rx>>

\* One entry of the capture is a glitch no symbol matches.
Garble ==
  /\ phase = "captured"
  /\ noise.kind = "none"
  /\ \E p \in 1..Min(rawlen - 1, MaxNoisePos) :
       /\ rawbuf' = Put(rawbuf, p, 1)
       /\ noise' = [kind |-> "garble", pos |-> p]
  /\ UNCHANGED <<acVars, unitTest, phase, enc, tx, frames, pulses, rawlen, results, rx>>

\* The capture ended early: rawlen is smaller, the entries past it are stale.
Truncate ==
  /\ phase = "captured"
  /\ noise.kind = "none"
  /\ \E n \in TruncLens :
       /\ n < rawlen
       /\ rawlen' = n
       /\ noise' = [kind |-> "truncate", pos |-> n]
  /\ UNCHANGED <<acVars, unitTest, phase, enc, tx, frames, pulses, rawbuf, results, rx>>

\* decodeSharp(&results, nbits, strict, expansion).
DecodeSharp(N, S, E) ==
  /\ phase = "captured"
  /\ \E n \in N, s \in S, e \in E :
       LET r == decodeSharp(results, rawbuf, rawlen, n, s, e, unitTest)
       IN /\ results' = r.results
          /\ rx' = [proto |-> SHARP, nbits |-> n, strict |-> s, expansion |-> e,
                    ok |-> r.ok, before |-> results]
  /\ phase' = "decoded"
  /\ UNCHANGED <<acVars, unitTest, enc, tx, frames, pulses, rawbuf, rawlen, noise>>

\* decodeSharpAc(&results, nbits, strict).
DecodeSharpAc(N, S) ==
  /\ phase = "captured"
  /\ \E n \in N, s \in S :
       LET r == decodeSharpAc(results, rawbuf, rawlen, n, s)
       IN /\ results' = r.results
          /\ rx' = [proto |-> SHARP_AC, nbits |-> n, strict |-> s, expansion |-> FALSE,
                    ok |-> r.ok, before |-> results]
  /\ phase' = "decoded"
  /\ UNCHANGED <<acVars, unitTest, enc, tx, frames, pulses, rawbuf, rawlen, noise>>

\* The arguments tried.
AddressInputs == {31, 10}

CommandInputs == {58, 197}

StateInputs ==
  { <<170, 90, 207, 16, 204, 49, 34, 0, 8, 128, 4, 224, 65>>,
    <<170, 90, 207, 16, 0, 1, 0, 0, 8, 128, 0, 224, 49>>,
    <<170, 90, 207, 16, 0, 1, 0, 0, 8, 128, 0, 224, 1>>,
    <<170, 90, 207, 16, 204, 49, 34, 0, 8, 128, 4, 224, 65, 90>> }

SendRaw == SendHalf \/ NextRepeat \/ SendReturn

Corrupt == Flip \/ Garble \/ Truncate

\* The compact protocol: sampled frames, sent, captured with or without one
\* fault, and decoded.
NextCodec ==
  \/ Encode(AddressInputs, CommandInputs, {0, 1}, {0, 1}, BOOLEAN)
  \/ SendSharpRaw(0..MaxRepeat)
  \/ SendRaw
  \/ Capture
  \/ Corrupt
  \/ DecodeSharp({kSharpBits, kSharpBits - 1}, BOOLEAN, BOOLEAN)

SpecCodec == InitLink /\ [][NextCodec]_vars

\* The compact protocol over every address and command, LSB first, sent once
\* and decoded leniently.
NextRoundTrip ==
  \/ Encode(0..(Pow2(kSharpAddressBits) - 1), 0..(Pow2(kSharpCommandBits) - 1),
            {0, 1}, {0, 1}, {FALSE})
  \/ SendSharpRaw({0})
  \/ SendRaw
  \/ Capture
  \/ DecodeSharp({kSharpBits}, {FALSE}, {TRUE})

SpecRoundTrip == InitLink /\ [][NextRoundTrip]_vars

\* The compact protocol with frames of kSharpBits and of kSharpBits - 1 bits,
\* captured with or without one fault, decoded strictly and leniently.
NextStrict ==
  \/ Encode(AddressInputs, CommandInputs, {0, 1}, {0, 1}, BOOLEAN)
  \/ SendSharpRawBits({kSharpBits, kSharpBits - 1}, {0})
  \/ SendRaw
  \/ Capture
  \/ Corrupt
  \/ DecodeSharp({kSharpBits, kSharpBits - 1}, BOOLEAN, BOOLEAN)

SpecStrict == InitLink /\ [][NextStrict]_vars

\* encodeSharp alone, over every 5-bit address and 8-bit command and over
\* wider values of all four fields.
WideAddressInputs == (0..(Pow2(kSharpAddressBits) - 1)) \cup {32, 65514, 65535}

WideCommandInputs == (0..(Pow2(kSharpCommandBits) - 1)) \cup {256, 65338, 65535}

WideBitInputs == {0, 1, 2, 65535}

NextEncode ==
  Encode(WideAddressInputs, WideCommandInputs, WideBitInputs, WideBitInputs, BOOLEAN)

SpecEncode == InitLink /\ [][NextEncode]_vars

\* One pass of the inner loop of sendSharpRaw with the pulses it emits left
\* out of the record: the pulse train of a call that does not return has no
\* end.
SendHalfUnrecorded ==
  /\ phase = "sending"
  /\ tx.i <= tx.repeat
  /\ tx.n < 2
  /\ tx' = [tx EXCEPT !.data = toggle(tx.data), !.n = tx.n + 1]
  /\ UNCHANGED <<acVars, unitTest, phase, enc, frames, pulses, rawbuf, rawlen, noise,
                 results, rx>>

\* Both protocols: every decoder is tried on every capture, as IRrecv::decode does.
NextLink ==
  \/ Encode({31}, {58}, {0, 1}, {0}, {FALSE})
  \/ SendSharpRaw({0})
  \/ SendRaw
  \/ SendSharpAc(StateInputs, {0})
  \/ Capture
  \/ Corrupt
  \/ DecodeSharp({kSharpBits}, BOOLEAN, {TRUE})
  \/ DecodeSharpAc({kSharpAcBits, 8}, BOOLEAN)

SpecLink == InitLink /\ [][NextLink]_vars

----------------------------------------------------------------------------
(* The IRSharpAc object as a state machine: one action per public call.    *)

\* The arguments the calls are tried with.
ModeInputs == {kSharpAcAuto, kSharpAcHeat, kSharpAcCool, kSharpAcDry, 4, 255}

TempInputs == {0, 14, 15, 16, 25, 30, 31, 255}

FanInputs ==
  {kSharpAcFanAuto, kSharpAcFanMin, kSharpAcFanMed, kSharpAcFanHigh, kSharpAcFanMax, 0, 6}

InitAc == AcReset /\ LinkIdle /\ unitTest = FALSE

Call(name, arg, r) ==
  /\ remote' = r
  /\ prev' = remote
  /\ lastOp' = Op(name, arg)
  /\ sent' = IF name = "send" THEN r ELSE <<>>
  /\ UNCHANGED linkVars

SetMode(M) == \E m \in M : Call("setMode", m, setMode(remote, m))

SetTemp(T) == \E t \in T : Call("setTemp", t, setTemp(remote, t))

SetFan(F) == \E s \in F : Call("setFan", s, setFan(remote, s))

On == Call("on", NoArg, on(remote))

Off == Call("off", NoArg, off(remote))

\* setPower(on); the argument is recorded as 1 or 0.
SetPower == \E b \in BOOLEAN : Call("setPower", IF b THEN 1 ELSE 0, setPower(remote, b))

NextSetters ==
  \/ SetMode(ModeInputs) \/ SetTemp(TempInputs) \/ SetFan(FanInputs)
  \/ On \/ Off \/ SetPower

\* Setter calls only, from the reset state.
SpecSetters == InitAc /\ [][NextSetters]_vars

\* setRaw is tried with these (new_code, length) pairs.
RawInputs ==
  { <<<<170, 90, 207, 16, 204, 49, 34, 0, 8, 128, 4, 224, 65>>, 13>>,
    <<<<170, 90, 207, 16, 3, 32, 3, 0, 8, 128, 0, 224, 255>>, 13>>,
    <<<<1, 2, 3, 4, 197, 48, 113, 7, 8, 9, 5, 11, 172, 13>>, 14>>,
    <<<<0, 0, 0, 0, 0, 0>>, 6>>,
    <<<<7>>, 0>> }

SetRaw == \E c \in RawInputs : Call("setRaw", c[2], setRaw(remote, c[1], c[2]))

\* getRaw(): checksum(), then the array is returned.
GetRaw == Call("getRaw", NoArg, checksum(remote))

\* send(): checksum(), then sendSharpAc(remote, kSharpAcStateLength, repeat).
Send == Call("send", NoArg, checksum(remote))

\* The setter arguments tried between setRaw, getRaw and send calls.
AcModeInputs == {kSharpAcCool, kSharpAcDry}

AcTempInputs == {25}

AcFanInputs == {kSharpAcFanMax}

NextAc ==
  \/ SetMode(AcModeInputs) \/ SetTemp(AcTempInputs) \/ SetFan(AcFanInputs) \/ On \/ Off
  \/ SetRaw \/ GetRaw \/ Send

\* Every public call of IRSharpAc, from the reset state.
SpecAc == InitAc /\ [][NextAc]_vars

\* The largest value of the uint16_t repeat argument.
kUint16Max == Pow2(16) - 1

\* The control flow of sendSharpRaw for the smallest and the largest repeat.
NextLoop ==
  \/ Encode({31}, {58}, {1}, {0}, {FALSE})
  \/ SendSharpRaw({0, kUint16Max})
  \/ SendHalfUnrecorded
  \/ NextRepeat
  \/ SendReturn

SpecLoop == InitAc /\ [][NextLoop]_vars

----------------------------------------------------------------------------
(* Properties of the IRSharpAc setters.                                    *)

TempManual(r) == BitAnd(Byte(r, kSharpAcByteManual), kSharpAcBitTempManual) # 0

TempField(r) == BitAnd(Byte(r, kSharpAcByteTemp), kSharpAcMaskTemp)

Clamp(t) == Min(Max(t, kSharpAcMinTemp), kSharpAcMaxTemp)

\* C3: after setMode(Auto) or setMode(Dry), from whatever mode, the
\* manual-temperature flag is clear and the temperature field is zero.
C3_AutoDryClearTemp ==
  (lastOp.op = "setMode" /\ lastOp.arg \in {kSharpAcAuto, kSharpAcDry})
    => (~TempManual(remote) /\ TempField(remote) = 0)

\* C4: after setMode(Cool) or setMode(Heat), from whatever state, the
\* manual-temperature flag is set.
C4_CoolHeatSetManual ==
  (lastOp.op = "setMode" /\ lastOp.arg \in {kSharpAcCool, kSharpAcHeat})
    => TempManual(remote)

\* C5: whenever the mode is Auto or Dry, getTemp() is kSharpAcMinTemp.
C5_AutoDryMinTemp ==
  getMode(remote) \in {kSharpAcAuto, kSharpAcDry} => getTemp(remote) = kSharpAcMinTemp

\* setMode(Auto) has just been called on a state whose temperature was 25.
C5_Witness ==
  /\ lastOp = Op("setMode", kSharpAcAuto)
  /\ getTemp(prev) = 25
  /\ getMode(remote) = kSharpAcAuto
  /\ getTemp(remote) = kSharpAcMinTemp

\* C10: in Cool or Heat, setTemp(t) gives getTemp() = min(max(t, min), max)
\* and sets the manual-temperature flag, for the call just made and for
\* every t in 0..255 applied to the current state.
C10_SetTempClamps ==
  /\ (lastOp.op = "setTemp" /\ getMode(prev) \in {kSharpAcCool, kSharpAcHeat})
       => (getTemp(remote) = Clamp(lastOp.arg) /\ TempManual(remote))
  /\ getMode(remote) \in {kSharpAcCool, kSharpAcHeat}
       => \A t \in 0..255 :
            LET r == setTemp(remote, t)
            IN getTemp(r) = Clamp(t) /\ TempManual(r)

\* setMode(Cool) followed by setTemp(25).
C10_Witness ==
  /\ lastOp = Op("setTemp", 25)
  /\ getMode(prev) = kSharpAcCool
  /\ getTemp(remote) = 25

FanManual(r) == BitAnd(Byte(r, kSharpAcByteManual), kSharpAcBitFanManual) # 0

ManualSpeeds == {kSharpAcFanMin, kSharpAcFanMed, kSharpAcFanHigh, kSharpAcFanMax}

\* What setFan(speed) must have made of the array p.
FanSet(r, p, speed) ==
  /\ getFan(r) = (IF speed \in ManualSpeeds THEN speed ELSE kSharpAcFanAuto)
  /\ FanManual(r) = (speed \in ManualSpeeds)
  /\ getMode(r) = getMode(p)

\* C11: setFan(s) for a manual speed s gives getFan() = s with the manual-fan
\* flag set; for Auto or any other value it gives getFan() = Auto with the
\* flag clear; the mode bits of the shared byte stay.  Checked for the call
\* just made and for every s in 0..255 applied to the current state.
C11_SetFan ==
  /\ lastOp.op = "setFan" => FanSet(remote, prev, lastOp.arg)
  /\ \A s \in 0..255 : FanSet(setFan(remote, s), remote, s)

\* setFan has just been called with a value that is no speed, in Cool mode,
\* on a state whose fan was Max.
C11_Witness ==
  /\ lastOp.op = "setFan"
  /\ lastOp.arg \notin ManualSpeeds \cup {kSharpAcFanAuto}
  /\ getFan(prev) = kSharpAcFanMax /\ FanManual(prev)
  /\ getMode(prev) = kSharpAcCool
  /\ getFan(remote) = kSharpAcFanAuto /\ ~FanManual(remote)
  /\ getMode(remote) = kSharpAcCool

Modes == {kSharpAcAuto, kSharpAcCool, kSharpAcHeat, kSharpAcDry}

\* C12: setMode(m) for a value m that is no mode leaves the array as
\* setMode(Auto) would have left it from the same state, with mode Auto.
\* Checked for the call just made and for every such m in 0..255 applied to
\* the current state.
C12_UnknownModeIsAuto ==
  /\ (lastOp.op = "setMode" /\ lastOp.arg \notin Modes) =>
       (remote = setMode(prev, kSharpAcAuto) /\ getMode(remote) = kSharpAcAuto)
  /\ \A m \in (0..255) \ Modes :
       LET r == setMode(remote, m)
       IN r = setMode(remote, kSharpAcAuto) /\ getMode(r) = kSharpAcAuto

\* setMode(255) has just been called in Heat mode.
C12_Witness ==
  /\ lastOp = Op("setMode", 255)
  /\ getMode(prev) = kSharpAcHeat
  /\ getMode(remote) = kSharpAcAuto

\* The "non-auto" marker of the power byte.
Marker(r) == BitAnd(Byte(r, kSharpAcBytePower), special) # 0

\* C18: in every state the setters reach from reset, the 0x20 marker is set
\* exactly when the mode is not Auto, and only setMode changes the mode.
C18_MarkerIffNotAuto ==
  /\ Marker(remote) <=> (getMode(remote) # kSharpAcAuto)
  /\ lastOp.op \in {"setTemp", "setFan", "on", "off", "setPower"} =>
       getMode(remote) = getMode(prev)

\* setMode(Auto) has just been called in Dry mode: the marker went away.
C18_Witness ==
  /\ lastOp = Op("setMode", kSharpAcAuto)
  /\ getMode(prev) = kSharpAcDry /\ Marker(prev)
  /\ getMode(remote) = kSharpAcAuto /\ ~Marker(remote)

\* r differs from p at most in the power bit.
PowerOnly(r, p) ==
  /\ \A k \in 0..(kSharpAcStateLength - 1) : k # kSharpAcBytePower => Byte(r, k) = Byte(p, k)
  /\ BitAnd(Byte(r, kSharpAcBytePower), Not8(kSharpAcBitPower))
       = BitAnd(Byte(p, kSharpAcBytePower), Not8(kSharpAcBitPower))

\* C19: on(), off() and setPower() change nothing but the power bit and
\* leave getPower() as asked; setMode, setTemp and setFan leave the power
\* bit alone; after reset the power is off.
C19_PowerIndependent ==
  /\ lastOp.op = "stateReset" => ~getPower(remote)
  /\ (lastOp.op = "on" \/ lastOp = Op("setPower", 1)) =>
       (getPower(remote) /\ PowerOnly(remote, prev))
  /\ (lastOp.op = "off" \/ lastOp = Op("setPower", 0)) =>
       (~getPower(remote) /\ PowerOnly(remote, prev))
  /\ lastOp.op \in {"setMode", "setTemp", "setFan"} =>
       getPower(remote) = getPower(prev)
  /\ \A m \in ModeInputs : getPower(setMode(remote, m)) = getPower(remote)
  /\ \A t \in TempInputs : getPower(setTemp(remote, t)) = getPower(remote)
  /\ \A s \in FanInputs : getPower(setFan(remote, s)) = getPower(remote)

\* off() has just been called with the power on, in a mode other than Auto.
C19_Witness ==
  /\ lastOp.op = "off"
  /\ getPower(prev) /\ Marker(prev)
  /\ ~getPower(remote) /\ Marker(remote)

\* C21: once setFan has stored a manual speed, a setTemp, setMode, on, off or
\* setPower call leaves getFan() and the manual-fan flag as they were.
C21_FanKeptByOtherSetters ==
  (/\ lastOp.op \in {"setTemp", "setMode", "on", "off", "setPower"}
   /\ getFan(prev) \in ManualSpeeds
   /\ FanManual(prev))
    => (getFan(remote) = getFan(prev) /\ FanManual(remote))

----------------------------------------------------------------------------
(* Properties of the checksum.                                             *)

LastByte(r) == Byte(r, kSharpAcStateLength - 1)

\* C6: the array send() hands to the transmitter, and the one getRaw()
\* returns, has a valid checksum; the checksum step changes only the high
\* nibble of the last byte and is idempotent.
C6_ChecksumBeforeSend ==
  /\ lastOp.op \in {"send", "getRaw"} =>
       /\ validChecksum(remote, kSharpAcStateLength)
       /\ BitAnd(LastByte(remote), 15) = BitAnd(LastByte(prev), 15)
       /\ \A k \in 0..(kSharpAcStateLength - 2) : Byte(remote, k) = Byte(prev, k)
       /\ checksum(remote) = remote
  /\ lastOp.op = "send" => (sent = remote /\ validChecksum(sent, kSharpAcStateLength))

\* send() has just run on an array whose stored checksum nibble was wrong
\* and not zero.
C6_Witness ==
  /\ lastOp.op = "send"
  /\ ~validChecksum(prev, kSharpAcStateLength)
  /\ Shr(LastByte(prev), 4) # 0
  /\ sent = remote

\* C7 as claimed: the array stateReset() writes has a valid checksum as stored.
C7_ResetValidAsStored ==
  lastOp.op = "stateReset" => validChecksum(remote, kSharpAcStateLength)

\* C7 as amended: the reset array as stored has checksum nibble 0 where
\* calcChecksum gives 3; after the checksum step (getRaw or send on the
\* reset state) it is AA 5A CF 10 00 01 00 00 08 80 00 E0 31 and valid.
C7_ResetValidAfterChecksum ==
  /\ lastOp.op = "stateReset" =>
       /\ remote = stateReset
       /\ Shr(LastByte(remote), 4) = 0
       /\ calcChecksum(remote, kSharpAcStateLength) = 3
  /\ (lastOp.op \in {"getRaw", "send"} /\ prev = stateReset) =>
       /\ remote = <<170, 90, 207, 16, 0, 1, 0, 0, 8, 128, 0, 224, 49>>
       /\ validChecksum(remote, kSharpAcStateLength)

\* getRaw() has just been called on the reset state.
C7_Witness ==
  /\ lastOp.op = "getRaw"
  /\ prev = stateReset
  /\ validChecksum(remote, kSharpAcStateLength)

\* The array with bit pos % 8 of byte pos \div 8 inverted.
flipBit(state, pos) ==
  Put(state, pos \div 8, BitXor(Byte(state, pos \div 8), Pow2(pos % 8)))

\* The bits outside the checksum nibble: all of bytes 0 .. length - 2 and the
\* low four bits of the last byte.
NonChecksumBits(length) == 0..(8 * (length - 1) + 3)

\* C15: a valid array with any one bit outside the checksum nibble inverted
\* is not valid.
C15_SingleFlipDetected ==
  validChecksum(remote, kSharpAcStateLength) =>
    \A pos \in NonChecksumBits(kSharpAcStateLength) :
      ~validChecksum(flipBit(remote, pos), kSharpAcStateLength)

\* getRaw() has made an array other than the reset one valid, and the array
\* with a bit of the temperature byte inverted is not.
C15_Witness ==
  /\ lastOp.op = "getRaw"
  /\ validChecksum(remote, kSharpAcStateLength)
  /\ remote # checksum(stateReset)
  /\ ~validChecksum(flipBit(remote, 8 * kSharpAcByteTemp + 6), kSharpAcStateLength)

----------------------------------------------------------------------------
(* Properties of the compact protocol.                                     *)

\* The capture is exactly what sendSharpRaw sent for an LSB-first frame.
CleanSharpCapture ==
  /\ tx.proto = SHARP
  /\ tx.nbits = kSharpBits
  /\ noise.kind = "none"

\* C1: an LSB-first frame sent by sendSharpRaw and decoded leniently by
\* decodeSharp gives back the frame, the address and the command.
C1_RoundTrip ==
  (/\ phase = "decoded"
   /\ CleanSharpCapture
   /\ ~enc.MSBfirst
   /\ rx.proto = SHARP /\ rx.nbits = kSharpBits /\ ~rx.strict)
    => /\ rx.ok
       /\ results.decode_type = SHARP
       /\ results.bits = kSharpBits
       /\ results.value = enc.frame
       /\ results.address = enc.address
       /\ results.command = enc.command

\* Address 0x1F, command 0x3A has made the round trip.
C1_Witness ==
  /\ phase = "decoded"
  /\ CleanSharpCapture
  /\ ~enc.MSBfirst /\ enc.address = 31 /\ enc.command = 58
  /\ rx.proto = SHARP /\ ~rx.strict /\ rx.ok
  /\ results.address = 31 /\ results.command = 58
  /\ results.value = enc.frame

Returned == phase \in {"sent", "captured", "decoded"}

\* C2: sendSharpRaw hands sendGeneric data, data ^ mask, data, data ^ mask,
\* ...: 2 * (repeat + 1) half-frames in all; the mask is the low 10 bits, so
\* a pair agrees in the address bits and is complemented elsewhere, and every
\* pair starts from the original data.
C2_SendOrder ==
  /\ \A k \in 1..Len(frames) :
       frames[k] = IF k % 2 = 1 THEN tx.data0 ELSE BitXor(tx.data0, kSharpToggleMask)
  /\ \A k \in 1..Len(frames) :
       k % 2 = 0 =>
         /\ Shr(frames[k], kSharpCommandBits + 2) = Shr(frames[k - 1], kSharpCommandBits + 2)
         /\ (frames[k] % Pow2(kSharpCommandBits + 2))
              + (frames[k - 1] % Pow2(kSharpCommandBits + 2))
              = Pow2(kSharpCommandBits + 2) - 1
  /\ (phase = "sending" /\ tx.n \in {0, 2}) => tx.data = tx.data0
  /\ (Returned /\ tx.proto = SHARP) =>
       (Len(frames) = 2 * (tx.repeat + 1) /\ tx.data = tx.data0)

\* sendSharpRaw has returned from a call with repeat = 1.
C2_Witness ==
  /\ phase = "sent"
  /\ tx.proto = SHARP /\ tx.repeat = 1
  /\ Len(frames) = 4
  /\ frames[2] # frames[1]
  /\ frames[3] = frames[1]

\* The index of the first entry after the first half-frame's gap.
SecondFrameStart == 2 * kSharpBits + kFooter + kStartOffset

\* C9: with the redundancy check built in (UNIT_TEST), a strict decodeSharp of
\* a sendSharpRaw capture with one data bit of the second, inverted frame
\* flipped fails; the clean capture of encode(0x1F, 0x3A, 1, 0) decodes with
\* the original address and command.
C9_SecondFrameChecked ==
  /\ (/\ phase = "decoded" /\ unitTest
      /\ tx.proto = SHARP /\ rx.proto = SHARP /\ rx.strict
      /\ noise.kind = "flip"
      /\ noise.pos >= SecondFrameStart /\ noise.pos < 2 * SecondFrameStart - kStartOffset)
       => (~rx.ok /\ results = rx.before)
  /\ (/\ phase = "decoded" /\ unitTest
      /\ CleanSharpCapture
      /\ rx.proto = SHARP /\ rx.strict /\ rx.nbits = kSharpBits /\ rx.expansion
      /\ ~enc.MSBfirst /\ enc.address = 31 /\ enc.command = 58
      /\ enc.expansion = 1 /\ enc.check = 0)
       => (rx.ok /\ results.address = 31 /\ results.command = 58
           /\ results.value = enc.frame)

\* A strict decode has failed on a capture whose only fault is a flipped
\* bit in the second frame (expansion as expected, check bit clear).
C9_Witness ==
  /\ phase = "decoded" /\ unitTest
  /\ tx.proto = SHARP /\ rx.proto = SHARP /\ rx.strict /\ rx.nbits = kSharpBits
  /\ enc.check = 0 /\ rx.expansion = (enc.expansion = 1)
  /\ noise.kind = "flip" /\ noise.pos > SecondFrameStart
  /\ ~rx.ok

\* Bit i of x.
Bit(x, i) == (x \div Pow2(i)) % 2

\* The low w bits of x in the opposite order.
RECURSIVE Mirror(_, _)
Mirror(x, w) == IF w = 0 THEN 0 ELSE Bit(x, 0) * Pow2(w - 1) + Mirror(x \div 2, w - 1)

\* (a << 10) | (c << 2) | (e << 1) | k of the masked fields.
Packed(address, command, expansion, check, MSBfirst) ==
  LET a5 == address % Pow2(kSharpAddressBits)
      c8 == command % Pow2(kSharpCommandBits)
      a == IF MSBfirst THEN a5 ELSE Mirror(a5, kSharpAddressBits)
      c == IF MSBfirst THEN c8 ELSE Mirror(c8, kSharpCommandBits)
  IN a * Pow2(kSharpCommandBits + 2) + c * 4 + (expansion % 2) * 2 + (check % 2)

\* C16: the frame encodeSharp returns is below 2^15, is the packed value of
\* the masked fields (mirrored when LSB first), and is the frame of the
\* inputs reduced to their meaningful bits.
C16_EncodeMasks ==
  phase = "encoded" =>
    /\ enc.frame < Pow2(kSharpBits)
    /\ enc.frame = Packed(enc.address, enc.command, enc.expansion, enc.check, enc.MSBfirst)
    /\ enc.frame = encodeSharp(enc.address % Pow2(kSharpAddressBits),
                               enc.command % Pow2(kSharpCommandBits),
                               enc.expansion % 2, enc.check % 2, enc.MSBfirst)

\* encodeSharp(0xFFEA, 0xFF3A, 0xFFFF, 2, LSB first) has given the frame of
\* (0x0A, 0x3A, 1, 0).
C16_Witness ==
  /\ phase = "encoded"
  /\ enc.address = 65514 /\ enc.command = 65338
  /\ enc.expansion = 65535 /\ enc.check = 2 /\ ~enc.MSBfirst
  /\ enc.frame = encodeSharp(10, 58, 1, 0, FALSE)
  /\ enc.frame = 10 * 1024 + 92 * 4 + 2

\* The capture is exactly what sendSharpRaw sent, decoded with the bit count
\* it was sent with.
WellFormed ==
  /\ tx.proto = SHARP /\ rx.proto = SHARP
  /\ noise.kind = "none"
  /\ tx.nbits = rx.nbits

\* The frame sent breaks one of the three strict rules of the decode call.
OutOfSpec ==
  \/ rx.nbits # kSharpBits
  \/ Bit(tx.data0, 1) # (IF rx.expansion THEN 1 ELSE 0)
  \/ Bit(tx.data0, 0) # 0

\* C13: a strict decodeSharp that returns true was asked for kSharpBits bits
\* and has decoded the expected expansion bit and a zero check bit; a
\* well-formed frame that breaks one of the three is rejected by a strict
\* call and accepted by a lenient one.
C13_StrictChecks ==
  /\ (phase = "decoded" /\ rx.proto = SHARP /\ rx.ok /\ rx.strict) =>
       /\ rx.nbits = kSharpBits
       /\ results.bits = kSharpBits
       /\ Bit(results.value, 1) = (IF rx.expansion THEN 1 ELSE 0)
       /\ Bit(results.value, 0) = 0
  /\ (phase = "decoded" /\ WellFormed /\ OutOfSpec) => (rx.ok <=> ~rx.strict)

\* A strict call has accepted a clean frame with the expansion bit set.
C13_Witness ==
  /\ phase = "decoded" /\ WellFormed
  /\ rx.strict /\ rx.ok /\ rx.expansion
  /\ ~OutOfSpec
  /\ results.value = tx.data0

\* What was sent is a Sharp A/C message.
AcSent == tx.proto = SHARP_AC /\ rx.proto = SHARP_AC

\* C14: a strict decodeSharpAc that returns true was asked for kSharpAcBits
\* bits, has decoded exactly that many and has stored an array with a valid
\* checksum; a strict call rejects a message of 14 bytes, a message whose
\* checksum nibble is wrong, and a message with a flipped or unreadable entry.
C14_StrictAc ==
  /\ (phase = "decoded" /\ rx.proto = SHARP_AC /\ rx.ok /\ rx.strict) =>
       /\ rx.nbits = kSharpAcBits
       /\ results.decode_type = SHARP_AC
       /\ results.bits = kSharpAcBits
       /\ validChecksum(results.state, kSharpAcStateLength)
  /\ (/\ phase = "decoded" /\ AcSent /\ rx.strict
      /\ \/ noise.kind \in {"flip", "garble"}
         \/ /\ noise.kind = "none"
            /\ \/ Len(tx.state) # kSharpAcStateLength
               \/ ~validChecksum(tx.state, kSharpAcStateLength))
       => ~rx.ok

\* A strict call has accepted the clean capture of a valid 13-byte message.
C14_Witness ==
  /\ phase = "decoded" /\ AcSent
  /\ noise.kind = "none"
  /\ rx.strict /\ rx.ok
  /\ results.state = tx.state
  /\ results.bits = kSharpAcBits

\* C17: a decodeSharpAc call stores at most nbits / 8 bytes, and a lenient
\* call that returns true reports at most nbits bits.
C17_StoresAtMostStateBytes ==
  (phase = "decoded" /\ rx.proto = SHARP_AC) =>
    /\ bytesStored(rawbuf, rawlen, rx.nbits, rx.strict) <= rx.nbits \div 8
    /\ (rx.ok /\ ~rx.strict) => results.bits <= rx.nbits

\* C20: a running sendSharpRaw call can return.  The outer loop is left only
\* when "i <= repeat" is false, and i is a 16-bit counter that goes up by one
\* per pass: some value from its current one up to the largest, 65535, must
\* exceed repeat.
C20_CounterExceedsRepeat ==
  phase = "sending" => \E v \in tx.i..kUint16Max : ~(v <= tx.repeat)

\* The highest rawbuf index the decode call just made has read.
lastRead ==
  IF rx.proto = SHARP
  THEN sharpLastRead(rawbuf, rawlen, rx.nbits, rx.strict, rx.expansion, unitTest)
  ELSE acLastRead(rawbuf, rawlen, rx.nbits, rx.strict)

\* C22: decodeSharp and decodeSharpAc read rawbuf only at indices below rawlen.
C22_ReadsBelowRawlen ==
  phase = "decoded" => lastRead < rawlen

\* C8: a decoder that returns false leaves every output field as it was.
C8_FailedDecodeLeavesResults ==
  (phase = "decoded" /\ ~rx.ok) => results = rx.before

====
